---- MODULE Spec2Model ----
(***************************************************************************)
(* Face-attendance camera client (src/facerec/client/program.py): identity *)
(* decision, temporal voting, and the presence state machine of main().    *)
(*                                                                         *)
(* Time is counted in units of 0.2 s (the greatest common unit of the four *)
(* presence durations); distances in units of 0.005 (so that               *)
(* 0.5*d_centroid + 0.5*d_min of two norms given in hundredths is their    *)
(* plain sum).                                                             *)
(*                                                                         *)
(* The program reads a stored timestamp ts only as now - ts or ts == 0.0,  *)
(* so its behaviour does not change when every timestamp and the clock are *)
(* moved by the same amount.  The model keeps the time of the tick being   *)
(* processed at the fixed value Now and, when a tick starts, moves every   *)
(* stored timestamp back by the time that passed (Aged).  A field is told  *)
(* apart from Now only as far back as the longest duration it is compared  *)
(* with, plus one (the Keep* definitions): beyond that every comparison    *)
(* the program makes has the same result.  0 stays the "unset" value 0.0.  *)
(***************************************************************************)
EXTENDS Integers, Sequences, FiniteSets, TLC

\* ---------------------------------------------------------------- config
TOLERANCE == 100
GAP_MARGIN == 20
VOTES_WINDOW == 7
VOTES_REQUIRED == 3
MIN_BOX_SIZE == 40
APPEAR_SUSTAIN_SEC == 4
ABSENCE_GRACE_SEC == 10
EVENT_DEBOUNCE_SEC == 15
MIN_SESSION_SEC == 75

\* ---------------------------------------------------------------- bounds
\* now_ts of the tick being processed
Now == 1000
\* no attendance row is toggled more often than this
MaxVisits == 3
\* a store call that fails by timing out takes this long
CallTimeout == 15
\* how long after a check-in the frame-by-frame runs are followed
EntryHorizon == 6
\* how many toggles the store is put through when it is driven directly
MaxToggles == 4
\* how many toggles each of two concurrent writers makes
MaxRaceCalls == 2
\* embedding components run from -MaxThousandth to MaxThousandth thousandths
MaxThousandth == 16

Unknown == "Unknown"
None == "None"
Inf == 100000

\* ---------------------------------------------------------------- helpers
Put(d, k, v) == [x \in (DOMAIN d) \cup {k} |-> IF x = k THEN v ELSE d[x]]

Del(d, k) == [x \in (DOMAIN d) \ {k} |-> d[x]]

Get(d, k, default) == IF k \in DOMAIN d THEN d[k] ELSE default

Max2(a, b) == IF a >= b THEN a ELSE b

\* a stored timestamp d time units later; it is told apart from Now up to keep
Aged(ts, d, keep) == IF ts = 0 THEN 0 ELSE Max2(ts - d, Now - keep)

RECURSIVE SeqMin(_)
SeqMin(s) == IF Len(s) = 1 THEN s[1]
             ELSE LET m == SeqMin(Tail(s)) IN IF s[1] <= m THEN s[1] ELSE m

\* ---------------------------------------------------------------- gallery
\* Labels of the gallery, in known_faces.keys() order.
Identities == <<"alice", "bob">>

\* A face as the recogniser sees it: its quantised-embedding fingerprint and,
\* per gallery label, the norm to the centroid and the norms to each enrolled
\* embedding (hundredths).
FaceAlice == [fp |-> "fa", dc |-> [alice |-> 30, bob |-> 80],
              dm |-> [alice |-> <<34, 26>>, bob |-> <<90, 76>>]]

FaceBob == [fp |-> "fb", dc |-> [alice |-> 82, bob |-> 28],
            dm |-> [alice |-> <<88>>, bob |-> <<30, 36>>]]

FaceStranger == [fp |-> "f1", dc |-> [alice |-> 70, bob |-> 72],
                 dm |-> [alice |-> <<66>>, bob |-> <<70, 75>>]]

\* d = 0.5 * d_centroid + 0.5 * d_min
BlendedDist(enc, name) == enc.dc[name] + SeqMin(enc.dm[name])

\* list.sort(key=...) : stable insertion of one pair into a sorted list
RECURSIVE InsertSorted(_, _)
InsertSorted(sorted, pair) ==
    IF sorted = <<>> THEN <<pair>>
    ELSE LET last == sorted[Len(sorted)]
         IN IF last[2] <= pair[2] THEN Append(sorted, pair)
            ELSE Append(InsertSorted(SubSeq(sorted, 1, Len(sorted) - 1), pair), last)

RECURSIVE SortByDist(_)
SortByDist(dists) ==
    IF dists = <<>> THEN <<>>
    ELSE InsertSorted(SortByDist(SubSeq(dists, 1, Len(dists) - 1)), dists[Len(dists)])

\* the rejection rule with the boundary distance rejected as well
Rejects_atleast(best_dist, second_dist) ==
    best_dist >= TOLERANCE \/ (second_dist - best_dist) < GAP_MARGIN

Rejects(best_dist, second_dist) ==
    best_dist > TOLERANCE \/ (second_dist - best_dist) < GAP_MARGIN

decide_identity(enc, identities) ==
    IF identities = <<>> THEN [name |-> Unknown, best |-> Inf, second |-> Inf]
    ELSE LET dists == SortByDist([i \in 1..Len(identities) |->
                                     <<identities[i], BlendedDist(enc, identities[i])>>])
             best_name == dists[1][1]
             best_dist == dists[1][2]
             second_dist == IF Len(dists) > 1 THEN dists[2][2] ELSE Inf
         IN IF Rejects(best_dist, second_dist)
            THEN [name |-> Unknown, best |-> best_dist, second |-> second_dist]
            ELSE [name |-> best_name, best |-> best_dist, second |-> second_dist]

\* ---------------------------------------------------------------- voter
\* deque(maxlen=VOTES_WINDOW).append
DequeAppend(buf, x) ==
    LET b == Append(buf, x)
    IN IF Len(b) > VOTES_WINDOW THEN SubSeq(b, Len(b) - VOTES_WINDOW + 1, Len(b)) ELSE b

\* counts = {} ; for n in buf: counts[n] = counts.get(n, 0) + 1
\* kept as the list of (label, count) pairs in dict insertion order
RECURSIVE Counts(_)
Counts(buf) ==
    IF buf = <<>> THEN <<>>
    ELSE LET c == Counts(SubSeq(buf, 1, Len(buf) - 1))
             n == buf[Len(buf)]
             at == {i \in 1..Len(c) : c[i][1] = n}
         IN IF at = {} THEN Append(c, <<n, 1>>)
            ELSE [i \in 1..Len(c) |-> IF i \in at THEN <<n, c[i][2] + 1>> ELSE c[i]]

\* a maximum that keeps the last item with the largest count
RECURSIVE MaxItem_last(_)
MaxItem_last(items) ==
    IF Len(items) = 1 THEN items[1]
    ELSE LET m == MaxItem_last(SubSeq(items, 1, Len(items) - 1))
             x == items[Len(items)]
         IN IF x[2] >= m[2] THEN x ELSE m

\* max(counts.items(), key=lambda kv: kv[1]) : the first item with the largest count
RECURSIVE MaxItem(_)
MaxItem(items) ==
    IF Len(items) = 1 THEN items[1]
    ELSE LET m == MaxItem(SubSeq(items, 1, Len(items) - 1))
             x == items[Len(items)]
         IN IF x[2] > m[2] THEN x ELSE m

\* the confidence test asking for more than VOTES_REQUIRED votes
Confident_more(name_mode, count_mode) ==
    (name_mode /= Unknown) /\ (count_mode > VOTES_REQUIRED)

Confident(name_mode, count_mode) ==
    (name_mode /= Unknown) /\ (count_mode >= VOTES_REQUIRED)

\* ---------------------------------------------------------------- state
VARIABLES
    clock,                    \* time.time() when the last tick ended (its now_ts was Now)
    vote_buffers,             \* detection index -> deque of candidates
    final_draw,               \* (label, box) drawn for each detection of the last frame
    seen_known_this_frame,    \* set of confirmed labels of the last frame
    seen_unknown_this_frame,  \* list of (fingerprint, box) of the last frame
    presence_known,           \* name -> PresenceState
    presence_unknown,         \* fingerprint -> PresenceState
    last_event_at,            \* _last_event_at: debounce key -> time
    attendance,               \* store table "attendance": its rows
    unknown_attendance,       \* store table "unknown_attendance": its rows
    ln,                       \* rows the last tick wrote to the CSV event log
    calls,                    \* notify_seen_* invocations of the last tick
    cancelled,                \* keys whose leaving window the last tick cancelled
    evicted,                  \* trackers the last tick deleted: key, time unseen
    probe,                    \* an embedding and a gallery handed to decide_identity
    decision,                 \* what decide_identity returned for probe
    returned,                 \* the row the last direct call of a toggle returned
    inflight,                 \* caller -> the toggle it is in the middle of
    scene,                    \* the faces that can come before the camera in this run
    confirmed,                \* key -> its last two confirmed transitions: kind, tick time
    encs,                     \* two embeddings handed to encoding_fingerprint
    fingerprints,             \* what encoding_fingerprint returned for each
    odd_frame,                \* whether the main loop has read an odd number of frames
    utc_today,                \* the calendar day datetime.now() falls on
    api_attendance            \* table "attendance" of a store only the API server writes

vars == <<clock, vote_buffers, final_draw, seen_known_this_frame,
          seen_unknown_this_frame, presence_known, presence_unknown, last_event_at,
          attendance, unknown_attendance, ln, calls, cancelled, evicted, probe,
          decision, returned, inflight, scene, confirmed, encs, fingerprints, odd_frame,
          utc_today, api_attendance>>

PresenceState == [present |-> FALSE, first_seen_ts |-> 0, last_seen_ts |-> 0,
                  entered_at |-> 0, last_toggle_at |-> 0, missing_since |-> 0]

\* f"known:{name}" and f"unknown:{fingerprint}"
KnownKey(name) == "known:" \o name

UnknownKey(fp) == "unknown:" \o fp

\* ---------------------------------------------------------------- per face
\* One iteration of the per-face loop for detection idx: det = [face, w, h].
\* r carries vote_buffers, final_draw and the two seen collections.
\* a box test one pixel too lenient
TooSmall_lenient(w, h) == w < MIN_BOX_SIZE - 1 \/ h < MIN_BOX_SIZE - 1

\* a box test that needs both sides short
TooSmall_both(w, h) == w < MIN_BOX_SIZE /\ h < MIN_BOX_SIZE

\* if w < MIN_BOX_SIZE or h < MIN_BOX_SIZE
TooSmall(w, h) == w < MIN_BOX_SIZE \/ h < MIN_BOX_SIZE

PerFace(r, idx, det) ==
    IF TooSmall(det.w, det.h)
    THEN [r EXCEPT !.vb = Put(@, idx, DequeAppend(Get(@, idx, <<>>), Unknown)),
                   !.draw = Append(@, <<Unknown, <<det.w, det.h>>>>)]
    ELSE LET candidate == decide_identity(det.face, Identities).name
             buf == DequeAppend(Get(r.vb, idx, <<>>), candidate)
             mode == MaxItem(Counts(buf))
             confident == Confident(mode[1], mode[2])
             name_final == IF confident THEN mode[1] ELSE Unknown
         IN [vb |-> Put(r.vb, idx, buf),
             draw |-> Append(r.draw, <<name_final, <<det.w, det.h>>>>),
             known |-> IF confident THEN r.known \cup {name_final} ELSE r.known,
             unknown |-> IF confident THEN r.unknown
                         ELSE Append(r.unknown, <<det.face.fp, <<det.w, det.h>>>>)]

RECURSIVE PerFaceLoop(_, _, _)
PerFaceLoop(r, frame, idx) ==
    IF idx >= Len(frame) THEN r
    ELSE PerFaceLoop(PerFace(r, idx, frame[idx + 1]), frame, idx + 1)

Recognise(vb, frame) ==
    PerFaceLoop([vb |-> vb, draw |-> <<>>, known |-> {}, unknown |-> <<>>], frame, 0)

\* ---------------------------------------------------------------- store
\* A table is the list of its rows, a row's id its place in the list; when is
\* the event time: its calendar day (date) and its instant (iso).
\* str.lower(), on the texts a status column is given here
Lower(text) ==
    CASE text = "Checked-In" -> "checked-in"
      [] text = "CHECKED-OUT" -> "checked-out"
      [] OTHER -> text

\* {**row, **upd}
Merge(row, upd) == [f \in DOMAIN row |-> IF f \in DOMAIN upd THEN upd[f] ELSE row[f]]

\* sb.table(...).update(upd).eq("id", id).execute()
UpdateRow(tbl, id, upd) ==
    [i \in DOMAIN tbl |-> IF tbl[i].id = id THEN Merge(tbl[i], upd) ELSE tbl[i]]

\* select("*").eq("student_id", student_id).eq("date", today).limit(1): the
\* first row that matches
SelectAttendance(tbl, student_id, today) ==
    LET hits == SelectSeq(tbl, LAMBDA r : r.student_id = student_id /\ r.date = today)
    IN IF hits = <<>> THEN <<>> ELSE <<hits[1]>>

\* the write that checks in whatever the selected row says
WriteAttendance_checkin(tbl, rows, student_id, when) ==
    IF rows = <<>>
    THEN LET ins == [id |-> Len(tbl) + 1, date |-> when.date, student_id |-> student_id,
                     check_in_at |-> when.iso, check_out_at |-> 0,
                     status |-> "checked-in", visits |-> 1, last_seen_at |-> when.iso]
         IN [tbl |-> Append(tbl, ins), row |-> ins]
    ELSE LET row == rows[1]
             upd == [check_in_at |-> when.iso, check_out_at |-> 0,
                     status |-> "checked-in", visits |-> row.visits + 1,
                     last_seen_at |-> when.iso]
         IN [tbl |-> UpdateRow(tbl, row.id, upd), row |-> Merge(row, upd)]

\* the write whose second check-in keeps the check-out time
WriteAttendance_keepout(tbl, rows, student_id, when) ==
    IF rows = <<>>
    THEN LET ins == [id |-> Len(tbl) + 1, date |-> when.date, student_id |-> student_id,
                     check_in_at |-> when.iso, check_out_at |-> 0,
                     status |-> "checked-in", visits |-> 1, last_seen_at |-> when.iso]
         IN [tbl |-> Append(tbl, ins), row |-> ins]
    ELSE LET row == rows[1]
             upd == IF row.status = "checked-in"
                    THEN [check_out_at |-> when.iso, status |-> "checked-out",
                          visits |-> row.visits + 1, last_seen_at |-> when.iso]
                    ELSE [check_in_at |-> when.iso,
                          status |-> "checked-in", visits |-> row.visits + 1,
                          last_seen_at |-> when.iso]
         IN [tbl |-> UpdateRow(tbl, row.id, upd), row |-> Merge(row, upd)]

\* the insert or the update that follows the select, and the row returned; a
\* null column reads as 0 (visits, check_out_at) or as None (status)
WriteAttendance(tbl, rows, student_id, when) ==
    IF rows = <<>>
    THEN LET ins == [id |-> Len(tbl) + 1, date |-> when.date, student_id |-> student_id,
                     check_in_at |-> when.iso, check_out_at |-> 0,
                     status |-> "checked-in", visits |-> 1, last_seen_at |-> when.iso]
         IN [tbl |-> Append(tbl, ins), row |-> ins]
    ELSE LET row == rows[1]
             visits == row.visits
             status == Lower(IF row.status \in {None, ""} THEN "absent" ELSE row.status)
             upd == IF status = "checked-in" /\ row.check_out_at = 0
                    THEN [check_out_at |-> when.iso, status |-> "checked-out",
                          visits |-> visits + 1, last_seen_at |-> when.iso]
                    ELSE [check_in_at |-> when.iso, check_out_at |-> 0,
                          status |-> "checked-in", visits |-> visits + 1,
                          last_seen_at |-> when.iso]
         IN [tbl |-> UpdateRow(tbl, row.id, upd), row |-> Merge(row, upd)]

toggle_attendance_for_today_direct(tbl, student_id, when) ==
    WriteAttendance(tbl, SelectAttendance(tbl, student_id, when.date), student_id, when)

\* src/facerec/app/api.py, _toggle_attendance_for_today: the select
ApiSelectAttendance(tbl, student_id, today_str) ==
    LET hits == SelectSeq(tbl, LAMBDA r : r.student_id = student_id /\ r.date = today_str)
    IN IF hits = <<>> THEN <<>> ELSE <<hits[1]>>

\* the server's write that reads the status column as it is stored
ApiWriteAttendance_nolower(tbl, rows, student_id, event_time) ==
    IF rows = <<>>
    THEN LET ins == [id |-> Len(tbl) + 1, date |-> event_time.date,
                     student_id |-> student_id, check_in_at |-> event_time.iso,
                     check_out_at |-> 0, status |-> "checked-in", visits |-> 1,
                     last_seen_at |-> event_time.iso]
         IN [tbl |-> Append(tbl, ins), row |-> ins]
    ELSE LET row == rows[1]
             upd == IF row.status = "checked-in" /\ row.check_out_at = 0
                    THEN [check_out_at |-> event_time.iso, status |-> "checked-out",
                          visits |-> row.visits + 1, last_seen_at |-> event_time.iso]
                    ELSE [check_in_at |-> event_time.iso, check_out_at |-> 0,
                          status |-> "checked-in", visits |-> row.visits + 1,
                          last_seen_at |-> event_time.iso]
         IN [tbl |-> UpdateRow(tbl, row.id, upd), row |-> Merge(row, upd)]

\* src/facerec/app/api.py, _toggle_attendance_for_today: the insert or update
ApiWriteAttendance(tbl, rows, student_id, event_time) ==
    IF rows = <<>>
    THEN LET ins == [id |-> Len(tbl) + 1, date |-> event_time.date,
                     student_id |-> student_id, check_in_at |-> event_time.iso,
                     check_out_at |-> 0, status |-> "checked-in", visits |-> 1,
                     last_seen_at |-> event_time.iso]
         IN [tbl |-> Append(tbl, ins), row |-> ins]
    ELSE LET row == rows[1]
             visits == row.visits
             status == Lower(IF row.status \in {None, ""} THEN "absent" ELSE row.status)
             upd == IF status = "checked-in" /\ row.check_out_at = 0
                    THEN [check_out_at |-> event_time.iso, status |-> "checked-out",
                          visits |-> visits + 1, last_seen_at |-> event_time.iso]
                    ELSE [check_in_at |-> event_time.iso, check_out_at |-> 0,
                          status |-> "checked-in", visits |-> visits + 1,
                          last_seen_at |-> event_time.iso]
         IN [tbl |-> UpdateRow(tbl, row.id, upd), row |-> Merge(row, upd)]

toggle_attendance_for_today(tbl, student_id, event_time) ==
    ApiWriteAttendance(tbl, ApiSelectAttendance(tbl, student_id, event_time.date),
                       student_id, event_time)

SelectUnknownAttendance(tbl, unknown_id, today) ==
    LET hits == SelectSeq(tbl, LAMBDA r : r.unknown_id = unknown_id /\ r.date = today)
    IN IF hits = <<>> THEN <<>> ELSE <<hits[1]>>

WriteUnknownAttendance(tbl, rows, unknown_id, snapshot_url, when) ==
    IF rows = <<>>
    THEN LET ins == [id |-> Len(tbl) + 1, unknown_id |-> unknown_id, date |-> when.date,
                     status |-> "checked-in", check_in_at |-> when.iso,
                     check_out_at |-> 0, last_seen_at |-> when.iso, visits |-> 1,
                     snapshot_url |-> snapshot_url]
         IN [tbl |-> Append(tbl, ins), row |-> ins]
    ELSE LET row == rows[1]
             snap == IF snapshot_url /= None THEN snapshot_url ELSE row.snapshot_url
             upd == IF row.status = "checked-in" /\ row.check_out_at = 0
                    THEN [status |-> "checked-out", check_out_at |-> when.iso,
                          last_seen_at |-> when.iso, visits |-> row.visits + 1,
                          snapshot_url |-> snap]
                    ELSE [status |-> "checked-in", check_in_at |-> when.iso,
                          check_out_at |-> 0, last_seen_at |-> when.iso,
                          visits |-> row.visits + 1, snapshot_url |-> snap]
         IN [tbl |-> UpdateRow(tbl, row.id, upd), row |-> Merge(row, upd)]

\* today and now_iso are read from the clock inside the function: when
toggle_unknown_attendance_today(tbl, unknown_id, snapshot_url, when) ==
    WriteUnknownAttendance(tbl, SelectUnknownAttendance(tbl, unknown_id, when.date),
                           unknown_id, snapshot_url, when)

\* the calendar day on which the camera is started
Today == "day1"

\* ---------------------------------------------------------------- gateway
\* What the store does to one call: "ok"; "error" (the toggle raises at once);
\* "timeout" (the toggle raises after CallTimeout); "miss" (_get_student finds
\* no record); "upload_fail" (_upload_unknown_snapshot returns None, the
\* toggle works).
KnownOutcomes == {"ok", "error", "timeout", "miss"}

UnknownOutcomes(box) ==
    {"ok", "error", "timeout"} \cup (IF box = None THEN {} ELSE {"upload_fail"})

\* s threads the state through one tick: pk, pu (presence maps), lea
\* (_last_event_at), clk (time.time()), att, uatt, ln, calls, cancelled,
\* evicted, confirmed.
\* the debounce comparison with the gap measured from APPEAR_SUSTAIN_SEC
DebounceElapsed_sustain(now, last) == (now - last) >= APPEAR_SUSTAIN_SEC

\* EVENT_DEBOUNCE_SEC has passed since last: the comparison of _debounced
\* (there negated, now - last < EVENT_DEBOUNCE_SEC) and of the last_toggle_at
\* conjunct of both presence conditions
DebounceElapsed(now, last) == (now - last) >= EVENT_DEBOUNCE_SEC

\* _debounced(key): [ok, last, s]
Debounced(s, key) ==
    LET last == Get(s.lea, key, 0)
    IN IF ~DebounceElapsed(s.clk, last) THEN [ok |-> FALSE, last |-> last, s |-> s]
       ELSE [ok |-> TRUE, last |-> last, s |-> [s EXCEPT !.lea = Put(@, key, s.clk)]]

\* one notify_seen_* invocation: did it pass _debounced, did it reach the
\* store's toggle, what the store did, time.time() when it was made, and the
\* _last_event_at entry _debounced compared it with (0 when there was none)
Call(key, kind, gate, toggled, outcome, at, last) ==
    [key |-> key, kind |-> kind, gate |-> gate, toggled |-> toggled,
     outcome |-> outcome, at |-> at, last |-> last]

Refused(s, key, kind, last) ==
    [ok |-> FALSE, status |-> None,
     s |-> [s EXCEPT !.calls = Append(@, Call(key, kind, FALSE, FALSE, None, s.clk, last))]]

\* a failure that puts the gate's timestamp back
Failed_rollback(s, key, kind, o, last) ==
    [ok |-> FALSE, status |-> None,
     s |-> [s EXCEPT !.calls = Append(@, Call(key, kind, TRUE, o /= "miss", o, s.clk, last)),
                     !.lea = Put(@, key, last),
                     !.clk = IF o = "timeout" THEN @ + CallTimeout ELSE @]]

Failed(s, key, kind, o, last) ==
    [ok |-> FALSE, status |-> None,
     s |-> [s EXCEPT !.calls = Append(@, Call(key, kind, TRUE, o /= "miss", o, s.clk, last)),
                     !.clk = IF o = "timeout" THEN @ + CallTimeout ELSE @]]

\* the body of notify_seen_known after the gate, under store answer o
KnownAnswer(s, name, kind, o, last) ==
    IF o /= "ok" THEN Failed(s, KnownKey(name), kind, o, last)
    ELSE LET t == toggle_attendance_for_today_direct(s.att, name,
                                                       [date |-> s.today, iso |-> s.clk])
         IN [ok |-> TRUE, status |-> t.row.status,
             s |-> [s EXCEPT !.att = t.tbl,
                             !.calls = Append(@, Call(KnownKey(name), kind, TRUE, TRUE, o,
                                                      s.clk, last))]]

\* notify_seen_known(name): the set of possible [ok, status, s]
notify_seen_known(s, name, kind) ==
    LET g == Debounced(s, KnownKey(name))
    IN IF ~g.ok THEN {Refused(s, KnownKey(name), kind, g.last)}
       ELSE {KnownAnswer(g.s, name, kind, o, g.last) : o \in KnownOutcomes}

\* the body of notify_seen_unknown after the gate, under store answer o
UnknownAnswer(s, fp, box, kind, o, last) ==
    IF o \in {"error", "timeout"} THEN Failed(s, UnknownKey(fp), kind, o, last)
    ELSE LET snapshot_url == IF box = None \/ o = "upload_fail" THEN None ELSE "url"
             t == toggle_unknown_attendance_today(s.uatt, fp, snapshot_url,
                                                  [date |-> s.today, iso |-> s.clk])
         IN [ok |-> TRUE, status |-> t.row.status,
             s |-> [s EXCEPT !.uatt = t.tbl,
                             !.calls = Append(@, Call(UnknownKey(fp), kind, TRUE, TRUE, o,
                                                      s.clk, last))]]

\* notify_seen_unknown(fingerprint, frame, box): the set of possible [ok, status, s]
notify_seen_unknown(s, fp, box, kind) ==
    LET g == Debounced(s, UnknownKey(fp))
    IN IF ~g.ok THEN {Refused(s, UnknownKey(fp), kind, g.last)}
       ELSE {UnknownAnswer(g.s, fp, box, kind, o, g.last) : o \in UnknownOutcomes(box)}

\* ---------------------------------------------------------------- presence
LogRow(name, event) == [name |-> name, event |-> event]

\* remember a confirmed transition of key: its kind and tick time, the kind of
\* the one before it and the tick time between the two
Record(hist, key, kind, at) ==
    Put(hist, key,
        IF key \in DOMAIN hist
        THEN [kind |-> kind, at |-> at, prev |-> hist[key].kind, since |-> at - hist[key].at]
        ELSE [kind |-> kind, at |-> at, prev |-> None, since |-> 0])

\* the check-in condition without its sustain conjunct
CheckInDue_nosustain(st, now) == DebounceElapsed(now, st.last_toggle_at)

\* the check-in condition asking for more than APPEAR_SUSTAIN_SEC
CheckInDue_after(st, now) ==
    (now - st.first_seen_ts) > APPEAR_SUSTAIN_SEC
    /\ DebounceElapsed(now, st.last_toggle_at)

\* the condition under which a seen, not-present entity asks for its check-in
CheckInDue(st, now) ==
    (now - st.first_seen_ts) >= APPEAR_SUSTAIN_SEC
    /\ DebounceElapsed(now, st.last_toggle_at)

\* the check-out condition without its minimum-session conjunct
CheckOutDue_nosession(st, now) ==
    (now - st.missing_since) >= ABSENCE_GRACE_SEC
    /\ DebounceElapsed(now, st.last_toggle_at)

\* the check-out condition without its absence-grace conjunct
CheckOutDue_nograce(st, now) ==
    (now - st.entered_at) >= MIN_SESSION_SEC
    /\ DebounceElapsed(now, st.last_toggle_at)

\* the condition under which an unseen, present entity asks for its check-out
CheckOutDue(st, now) ==
    (now - st.missing_since) >= ABSENCE_GRACE_SEC
    /\ (now - st.entered_at) >= MIN_SESSION_SEC
    /\ DebounceElapsed(now, st.last_toggle_at)

\* st.last_seen_ts = now_ts ; st.missing_since = 0.0 ; open the entering window
MarkSeen(st, now) ==
    LET st1 == [st EXCEPT !.last_seen_ts = now, !.missing_since = 0]
    IN IF ~st1.present /\ st1.first_seen_ts = 0 THEN [st1 EXCEPT !.first_seen_ts = now]
       ELSE st1

\* the check-in mutation that forgets entered_at
ApplyCheckIn_noentered(st, now) ==
    [st EXCEPT !.present = TRUE, !.last_toggle_at = now]

\* the check-in mutation that forgets last_toggle_at
ApplyCheckIn_notoggle(st, now) ==
    [st EXCEPT !.present = TRUE, !.entered_at = now]

\* the check-in mutation that forgets present
ApplyCheckIn_notpresent(st, now) ==
    [st EXCEPT !.entered_at = now, !.last_toggle_at = now]

\* the mutation applied when the check-in toggle returned ok
ApplyCheckIn(st, now) ==
    [st EXCEPT !.present = TRUE, !.entered_at = now, !.last_toggle_at = now]

\* the check-out mutation that keeps entered_at
ApplyCheckOut_keepentered(st, now) ==
    [st EXCEPT !.present = FALSE, !.first_seen_ts = 0, !.last_toggle_at = now,
               !.missing_since = 0]

\* the mutation applied when the check-out toggle returned ok
ApplyCheckOut(st, now) ==
    [st EXCEPT !.present = FALSE, !.first_seen_ts = 0, !.entered_at = 0,
               !.last_toggle_at = now, !.missing_since = 0]

\* a leaving window that is opened again on every tick
MarkMissing_always(st, now) == [st EXCEPT !.missing_since = now]

\* if st.missing_since == 0.0: st.missing_since = now_ts
MarkMissing(st, now) ==
    IF st.missing_since = 0 THEN [st EXCEPT !.missing_since = now] ELSE st

\* the deletion of a tracker: whose, and how long after its last sighting
Eviction(key, st, now) == [key |-> key, idle |-> now - st.last_seen_ts]

\* stale whether or not an entering window is open
Stale_nowindow(st, now) ==
    (now - Max2(st.first_seen_ts, st.last_seen_ts)) > (ABSENCE_GRACE_SEC * 3)

\* stale as soon as 3 * ABSENCE_GRACE_SEC have passed
Stale_atleast(st, now) ==
    st.first_seen_ts /= 0
    /\ (now - Max2(st.first_seen_ts, st.last_seen_ts)) >= (ABSENCE_GRACE_SEC * 3)

\* clean stale pre-entry state
Stale(st, now) ==
    st.first_seen_ts /= 0
    /\ (now - Max2(st.first_seen_ts, st.last_seen_ts)) > (ABSENCE_GRACE_SEC * 3)

\* the state mutation, the log row and the print whatever the gateway said
KnownConfirm_always(r, name, st, kind, now) ==
    [r.s EXCEPT !.pk = Put(@, name, IF kind = "in" THEN ApplyCheckIn(st, now)
                                    ELSE ApplyCheckOut(st, now)),
                !.ln = Append(@, LogRow(name, IF kind = "in" THEN "checked-in"
                                              ELSE "checked-out")),
                !.confirmed = Record(@, KnownKey(name), kind, now)]

\* if ok: the state mutation, the log row and the print
KnownConfirm(r, name, st, kind, now) ==
    IF r.ok
    THEN [r.s EXCEPT !.pk = Put(@, name, IF kind = "in" THEN ApplyCheckIn(st, now)
                                         ELSE ApplyCheckOut(st, now)),
                     !.ln = Append(@, LogRow(name, IF r.status /= None THEN r.status
                                                   ELSE IF kind = "in" THEN "checked-in"
                                                   ELSE "checked-out")),
                     !.confirmed = Record(@, KnownKey(name), kind, now)]
    ELSE r.s

UnknownConfirm(r, fp, st, kind, now) ==
    IF r.ok
    THEN [r.s EXCEPT !.pu = Put(@, fp, IF kind = "in" THEN ApplyCheckIn(st, now)
                                       ELSE ApplyCheckOut(st, now)),
                     !.ln = Append(@, LogRow(UnknownKey(fp), IF r.status /= None THEN r.status
                                                             ELSE IF kind = "in" THEN "checked-in"
                                                             ELSE "checked-out")),
                     !.confirmed = Record(@, UnknownKey(fp), kind, now)]
    ELSE r.s

\* the keys whose open leaving window a sighting closes
Cancels(st, key) == IF st.present /\ st.missing_since /= 0 THEN {key} ELSE {}

\* KNOWN: seen -> possible CHECK-IN (one iteration): the set of possible states
KnownSeen(s, name, now) ==
    LET st0 == Get(s.pk, name, PresenceState)
        st == MarkSeen(st0, now)
        s1 == [s EXCEPT !.pk = Put(@, name, st),
                        !.cancelled = @ \cup Cancels(st0, KnownKey(name))]
    IN IF ~st.present /\ CheckInDue(st, now)
       THEN {KnownConfirm(r, name, st, "in", now) : r \in notify_seen_known(s1, name, "in")}
       ELSE {s1}

\* KNOWN: not seen -> possible CHECK-OUT (one iteration)
KnownUnseen(s, name, now, seen) ==
    LET st0 == s.pk[name]
    IN IF st0.present
       THEN IF name \notin seen
            THEN LET st == MarkMissing(st0, now)
                     s1 == [s EXCEPT !.pk = Put(@, name, st)]
                 IN IF CheckOutDue(st, now)
                    THEN {KnownConfirm(r, name, st, "out", now) :
                              r \in notify_seen_known(s1, name, "out")}
                    ELSE {s1}
            ELSE {[s EXCEPT !.pk = Put(@, name, [st0 EXCEPT !.missing_since = 0])]}
       ELSE IF Stale(st0, now)
            THEN {[s EXCEPT !.pk = Del(@, name),
                            !.evicted = @ \cup {Eviction(KnownKey(name), st0, now)}]}
            ELSE {s}

\* UNKNOWN: seen -> possible CHECK-IN (one iteration)
UnknownSeen(s, fp, box, now) ==
    LET st0 == Get(s.pu, fp, PresenceState)
        st == MarkSeen(st0, now)
        s1 == [s EXCEPT !.pu = Put(@, fp, st),
                        !.cancelled = @ \cup Cancels(st0, UnknownKey(fp))]
    IN IF ~st.present /\ CheckInDue(st, now)
       THEN {UnknownConfirm(r, fp, st, "in", now) :
                 r \in notify_seen_unknown(s1, fp, box, "in")}
       ELSE {s1}

\* UNKNOWN: not seen -> possible CHECK-OUT (one iteration)
UnknownUnseen(s, fp, now, seen) ==
    LET st0 == s.pu[fp]
    IN IF st0.present
       THEN IF \A i \in 1..Len(seen) : fp /= seen[i][1]
            THEN LET st == MarkMissing(st0, now)
                     s1 == [s EXCEPT !.pu = Put(@, fp, st)]
                 IN IF CheckOutDue(st, now)
                    THEN {UnknownConfirm(r, fp, st, "out", now) :
                              r \in notify_seen_unknown(s1, fp, None, "out")}
                    ELSE {s1}
            ELSE {[s EXCEPT !.pu = Put(@, fp, [st0 EXCEPT !.missing_since = 0])]}
       ELSE IF Stale(st0, now)
            THEN {[s EXCEPT !.pu = Del(@, fp),
                            !.evicted = @ \cup {Eviction(UnknownKey(fp), st0, now)}]}
            ELSE {s}

\* iteration orders of the set and of the two dicts
NameOrder == <<"alice", "bob">>

FpOrder == <<"fa", "f1">>

\* the four loops; S is the set of states the tick can be in so far
RECURSIVE KnownSeenLoop(_, _, _, _)
KnownSeenLoop(S, seen, i, now) ==
    IF i > Len(NameOrder) THEN S
    ELSE KnownSeenLoop(IF NameOrder[i] \in seen
                       THEN UNION {KnownSeen(s, NameOrder[i], now) : s \in S} ELSE S,
                       seen, i + 1, now)

RECURSIVE KnownUnseenLoop(_, _, _, _)
KnownUnseenLoop(S, seen, i, now) ==
    IF i > Len(NameOrder) THEN S
    ELSE KnownUnseenLoop(UNION {IF NameOrder[i] \in DOMAIN s.pk
                                THEN KnownUnseen(s, NameOrder[i], now, seen) ELSE {s} :
                                s \in S},
                         seen, i + 1, now)

RECURSIVE UnknownSeenLoop(_, _, _, _)
UnknownSeenLoop(S, seen, i, now) ==
    IF i > Len(seen) THEN S
    ELSE UnknownSeenLoop(UNION {UnknownSeen(s, seen[i][1], seen[i][2], now) : s \in S},
                         seen, i + 1, now)

RECURSIVE UnknownUnseenLoop(_, _, _, _)
UnknownUnseenLoop(S, seen, i, now) ==
    IF i > Len(FpOrder) THEN S
    ELSE UnknownUnseenLoop(UNION {IF FpOrder[i] \in DOMAIN s.pu
                                  THEN UnknownUnseen(s, FpOrder[i], now, seen) ELSE {s} :
                                  s \in S},
                           seen, i + 1, now)

\* the presence state machine of one tick, from now_ts = time.time() on
Presence(s, seen_known, seen_unknown, now) ==
    UnknownUnseenLoop(
        UnknownSeenLoop(
            KnownUnseenLoop(KnownSeenLoop({s}, seen_known, 1, now), seen_known, 1, now),
            seen_unknown, 1, now),
        seen_unknown, 1, now)

\* ---------------------------------------------------------------- tick
KeepSeen == ABSENCE_GRACE_SEC * 3 + 1

KeepEntered == MIN_SESSION_SEC + 1

KeepToggle == EVENT_DEBOUNCE_SEC + 1

KeepMissing == ABSENCE_GRACE_SEC + 1

AgedState(st, d) ==
    [st EXCEPT !.first_seen_ts = Aged(@, d, KeepSeen), !.last_seen_ts = Aged(@, d, KeepSeen),
               !.entered_at = Aged(@, d, KeepEntered),
               !.last_toggle_at = Aged(@, d, KeepToggle),
               !.missing_since = Aged(@, d, KeepMissing)]

\* the store's timestamps are never compared: only set or null
AgedRow(row, d) ==
    [row EXCEPT !.check_in_at = Aged(@, d, 0), !.check_out_at = Aged(@, d, 0),
                !.last_seen_at = Aged(@, d, 0)]

\* the program's state when a frame is read d after the last tick's now_ts
Threaded(d) ==
    [pk |-> [k \in DOMAIN presence_known |-> AgedState(presence_known[k], d)],
     pu |-> [k \in DOMAIN presence_unknown |-> AgedState(presence_unknown[k], d)],
     lea |-> [k \in DOMAIN last_event_at |-> Aged(last_event_at[k], d, KeepToggle)],
     clk |-> Now,
     today |-> utc_today,
     att |-> [k \in DOMAIN attendance |-> AgedRow(attendance[k], d)],
     uatt |-> [k \in DOMAIN unknown_attendance |-> AgedRow(unknown_attendance[k], d)],
     ln |-> <<>>,
     calls |-> <<>>,
     cancelled |-> {},
     evicted |-> {},
     confirmed |-> [k \in DOMAIN confirmed |->
                       [confirmed[k] EXCEPT !.at = Aged(@, d, IF confirmed[k].kind = "in"
                                                            THEN KeepEntered
                                                            ELSE KeepToggle)]]]

\* One iteration of the main loop: the frame is read dt after the last tick
\* ended; frame is the detector's output.  The set of states it can end in.
TickResults(dt, frame) ==
    LET rec == Recognise(vote_buffers, frame)
    IN {[rec |-> rec, s |-> s] :
           s \in Presence(Threaded((clock - Now) + dt), rec.known, rec.unknown, Now)}

Tick(dt, frame) ==
    \E t \in TickResults(dt, frame) :
       /\ \A k \in DOMAIN t.s.att : t.s.att[k].visits <= MaxVisits
       /\ \A k \in DOMAIN t.s.uatt : t.s.uatt[k].visits <= MaxVisits
       /\ clock' = t.s.clk
       /\ vote_buffers' = t.rec.vb
       /\ final_draw' = t.rec.draw
       /\ seen_known_this_frame' = t.rec.known
       /\ seen_unknown_this_frame' = t.rec.unknown
       /\ presence_known' = t.s.pk
       /\ presence_unknown' = t.s.pu
       /\ last_event_at' = t.s.lea
       /\ attendance' = t.s.att
       /\ unknown_attendance' = t.s.uatt
       /\ ln' = t.s.ln
       /\ calls' = t.s.calls
       /\ cancelled' = t.s.cancelled
       /\ evicted' = t.s.evicted
       /\ UNCHANGED <<probe, decision, returned, inflight, scene,
                   encs, fingerprints, utc_today,
                   api_attendance>>
       /\ confirmed' = t.s.confirmed

\* ---------------------------------------------------------------- inputs
\* frames arrive 1 s, 3 s or 15 s after the last tick ended
TickGaps == {5, 15, 75}

Box(face) == [face |-> face, w |-> MIN_BOX_SIZE, h |-> MIN_BOX_SIZE]

\* a detection one pixel too narrow, and one a pixel too low
SmallBox(face) == [face |-> face, w |-> MIN_BOX_SIZE - 1, h |-> MIN_BOX_SIZE]

ShortBox(face) == [face |-> face, w |-> MIN_BOX_SIZE, h |-> MIN_BOX_SIZE - 1]

\* who can come before the camera: an enrolled person, or two strangers whose
\* embeddings quantise to the same fingerprint
Scenes == {{<<>>, <<Box(FaceAlice)>>},
           {<<>>, <<Box(FaceStranger), Box(FaceStranger)>>}}

\* decide_identity has not been called
NoDecision == [name |-> None, best |-> 0, second |-> 0]

\* the state after construction, but for the run's inputs
Start ==
    /\ clock = Now
    /\ vote_buffers = <<>>
    /\ final_draw = <<>>
    /\ seen_known_this_frame = {}
    /\ seen_unknown_this_frame = <<>>
    /\ presence_known = <<>>
    /\ presence_unknown = <<>>
    /\ last_event_at = <<>>
    /\ attendance = <<>>
    /\ unknown_attendance = <<>>
    /\ ln = <<>>
    /\ calls = <<>>
    /\ cancelled = {}
    /\ evicted = {}
    /\ decision = NoDecision
    /\ returned = <<>>
    /\ fingerprints = <<>>
    /\ odd_frame = FALSE
    /\ utc_today = Today
    /\ api_attendance = <<>>
    /\ inflight = <<>>
    /\ confirmed = <<>>

Init == Start /\ scene \in Scenes /\ probe = None /\ encs = <<>>

Next == \E dt \in TickGaps, frame \in scene : Tick(dt, frame) /\ UNCHANGED odd_frame

Spec == Init /\ [][Next]_vars

\* ---------------------------------------------------------------- faces far from the camera
\* The same main loop before a scene in which a face comes near enough for a
\* full-size box, or stays so far that its box is too narrow or too low;
\* frames 15 s apart.
FarGaps == {75}

FarScenes == {{<<>>, <<Box(FaceAlice)>>, <<SmallBox(FaceAlice)>>},
              {<<>>, <<Box(FaceStranger)>>, <<ShortBox(FaceStranger)>>}}

InitFar == Start /\ scene \in FarScenes /\ probe = None /\ encs = <<>>

NextFar == \E dt \in FarGaps, frame \in scene : Tick(dt, frame) /\ UNCHANGED odd_frame

SpecFar == InitFar /\ [][NextFar]_vars

\* ---------------------------------------------------------------- a run over midnight
\* The same main loop, left running while the calendar day changes.
DayGaps == {15, 75}

\* when.date() and datetime.now(timezone.utc).date() move on to the next day
Midnight ==
    /\ utc_today = Today
    /\ utc_today' = "day2"
    /\ UNCHANGED <<clock, vote_buffers, final_draw, seen_known_this_frame,
                   seen_unknown_this_frame, presence_known, presence_unknown,
                   last_event_at, attendance, unknown_attendance, ln, calls, cancelled,
                   evicted, probe, decision, returned, inflight, scene, confirmed, encs,
                   fingerprints, odd_frame, api_attendance>>

NextDays ==
    \/ \E dt \in DayGaps, frame \in scene : Tick(dt, frame) /\ UNCHANGED odd_frame
    \/ Midnight

SpecDays == Init /\ [][NextDays]_vars

\* ---------------------------------------------------------------- the loop that never stops
\* The same main loop with its frames counted modulo two: while True reads
\* frame after frame, 3 s or 15 s apart.
ExitGaps == {15, 75}

\* ok, frame = cap.read() : one more frame
FrameRead == odd_frame' = ~odd_frame

NextExit == \E dt \in ExitGaps, frame \in scene : Tick(dt, frame) /\ FrameRead

\* every step of the loop reads a frame, and the loop never stops
SpecExit == Init /\ [][NextExit]_vars /\ WF_odd_frame(FrameRead)

\* ---------------------------------------------------------------- entries, frame by frame
\* The same main loop watched at a finer grain: frames 0.4 s or 3.2 s apart,
\* each run followed until EntryHorizon after an entity's check-in.
EntryGaps == {2, 16}

Settled(presence) ==
    \A k \in DOMAIN presence :
        presence[k].present => Now - presence[k].entered_at <= EntryHorizon

NextEntry ==
    \E dt \in EntryGaps, frame \in scene :
        /\ Tick(dt, frame) /\ Settled(presence_known') /\ Settled(presence_unknown')
        /\ UNCHANGED odd_frame

SpecEntry == Init /\ [][NextEntry]_vars

\* ---------------------------------------------------------------- the store driven directly
\* The two toggles called one after the other, as notify_seen_* calls them,
\* for any student or unknown person and either of two calendar days.
Students == {"s1", "s2"}

Unknowns == {"u1"}

Days == {"day1", "day2"}

RECURSIVE SumVisits(_)
SumVisits(tbl) == IF tbl = <<>> THEN 0 ELSE tbl[1].visits + SumVisits(Tail(tbl))

\* the toggles applied so far; the next one happens at instant Toggled + 1
Toggled == SumVisits(attendance) + SumVisits(unknown_attendance)

ToggleKnown(student_id, date) ==
    /\ Toggled < MaxToggles
    /\ LET t == toggle_attendance_for_today_direct(attendance, student_id,
                                                    [date |-> date, iso |-> Toggled + 1])
       IN attendance' = t.tbl /\ returned' = <<t.row>>
    /\ UNCHANGED <<clock, vote_buffers, final_draw, seen_known_this_frame,
                   seen_unknown_this_frame, presence_known, presence_unknown,
                   last_event_at, unknown_attendance, ln, calls, cancelled, evicted, probe,
                   decision, inflight, scene, confirmed,
                   encs, fingerprints,
                   odd_frame, utc_today,
                   api_attendance>>

ToggleUnknown(unknown_id, snapshot_url, date) ==
    /\ Toggled < MaxToggles
    /\ LET t == toggle_unknown_attendance_today(unknown_attendance, unknown_id, snapshot_url,
                                                 [date |-> date, iso |-> Toggled + 1])
       IN unknown_attendance' = t.tbl /\ returned' = <<t.row>>
    /\ UNCHANGED <<clock, vote_buffers, final_draw, seen_known_this_frame,
                   seen_unknown_this_frame, presence_known, presence_unknown,
                   last_event_at, attendance, ln, calls, cancelled, evicted, probe,
                   decision, inflight, scene, confirmed,
                   encs, fingerprints,
                   odd_frame, utc_today,
                   api_attendance>>

\* POST /attendance/seen with a student_id: the server's toggle
ToggleApi(student_id, date) ==
    /\ Toggled < MaxToggles
    /\ LET t == toggle_attendance_for_today(attendance, student_id,
                                             [date |-> date, iso |-> Toggled + 1])
       IN attendance' = t.tbl /\ returned' = <<t.row>>
    /\ UNCHANGED <<clock, vote_buffers, final_draw, seen_known_this_frame,
                   seen_unknown_this_frame, presence_known, presence_unknown,
                   last_event_at, unknown_attendance, ln, calls, cancelled, evicted, probe,
                   decision, inflight, scene, confirmed, encs, fingerprints, odd_frame,
                   utc_today,
                   api_attendance>>

InitToggle == Start /\ scene = {} /\ probe = None /\ encs = <<>>

NextToggle ==
    \/ \E student_id \in Students, date \in Days : ToggleKnown(student_id, date)
    \/ \E student_id \in Students, date \in Days : ToggleApi(student_id, date)
    \/ \E unknown_id \in Unknowns, snapshot_url \in {None, "url"}, date \in Days :
           ToggleUnknown(unknown_id, snapshot_url, date)

SpecToggle == InitToggle /\ [][NextToggle]_vars

\* ---------------------------------------------------------------- two stores side by side
\* The camera's toggle on one store and the server's toggle on another, both
\* starting from the same table: empty, or holding one row for s1 on day1 as
\* any writer may have left it.
StoredStatuses == {"checked-in", "checked-out", "Checked-In", "CHECKED-OUT", "absent",
                   None, ""}

StoredRows ==
    {[id |-> 1, date |-> "day1", student_id |-> "s1", check_in_at |-> 1,
      check_out_at |-> out, status |-> status, visits |-> visits, last_seen_at |-> 1] :
         out \in {0, 1}, status \in StoredStatuses, visits \in {0, 1}}

InitPair ==
    /\ clock = Now
    /\ vote_buffers = <<>>
    /\ final_draw = <<>>
    /\ seen_known_this_frame = {}
    /\ seen_unknown_this_frame = <<>>
    /\ presence_known = <<>>
    /\ presence_unknown = <<>>
    /\ last_event_at = <<>>
    /\ attendance \in {<<>>} \cup {<<row>> : row \in StoredRows}
    /\ api_attendance = attendance
    /\ unknown_attendance = <<>>
    /\ ln = <<>>
    /\ calls = <<>>
    /\ cancelled = {}
    /\ evicted = {}
    /\ probe = None
    /\ decision = NoDecision
    /\ returned = <<>>
    /\ inflight = <<>>
    /\ scene = {}
    /\ confirmed = <<>>
    /\ encs = <<>>
    /\ fingerprints = <<>>
    /\ odd_frame = FALSE
    /\ utc_today = Today

\* the same student and event time handed to both toggles, each on its store
TogglePair(student_id, date) ==
    /\ Toggled < MaxToggles
    /\ LET when == [date |-> date, iso |-> Toggled + 1]
           direct == toggle_attendance_for_today_direct(attendance, student_id, when)
           api == toggle_attendance_for_today(api_attendance, student_id, when)
       IN /\ attendance' = direct.tbl
          /\ api_attendance' = api.tbl
          /\ returned' = <<direct.row, api.row>>
    /\ UNCHANGED <<clock, vote_buffers, final_draw, seen_known_this_frame,
                   seen_unknown_this_frame, presence_known, presence_unknown,
                   last_event_at, unknown_attendance, ln, calls, cancelled, evicted, probe,
                   decision, inflight, scene, confirmed, encs, fingerprints, odd_frame,
                   utc_today>>

NextPair == \E student_id \in Students, date \in Days : TogglePair(student_id, date)

SpecPair == InitPair /\ [][NextPair]_vars

\* ---------------------------------------------------------------- two writers
\* The camera client and the API handler /attendance/seen toggle the same
\* table, each in two requests to the store: the select, then the insert or
\* the update.  Nothing in either orders one writer's requests against the
\* other's.
Callers == {"client", "api"}

\* a writer between toggles; n counts the toggles it began, applied the
\* toggles that returned a row, per student
Idle(n, applied) ==
    [pc |-> "idle", n |-> n, applied |-> applied, student_id |-> None, when |-> None,
     rows |-> <<>>]

\* the toggles begun so far; the next one's event time is the next instant
Begun == inflight["client"].n + inflight["api"].n

\* the first request: the select
RaceSelect(c, student_id) ==
    /\ inflight[c].pc = "idle"
    /\ inflight[c].n < MaxRaceCalls
    /\ LET when == [date |-> Today, iso |-> Begun + 1]
           rows == IF c = "client"
                   THEN SelectAttendance(attendance, student_id, when.date)
                   ELSE ApiSelectAttendance(attendance, student_id, when.date)
       IN inflight' = [inflight EXCEPT ![c] = [@ EXCEPT !.pc = "selected",
                                                        !.n = @ + 1,
                                                        !.student_id = student_id,
                                                        !.when = when, !.rows = rows]]
    /\ UNCHANGED <<clock, vote_buffers, final_draw, seen_known_this_frame,
                   seen_unknown_this_frame, presence_known, presence_unknown,
                   last_event_at, attendance, unknown_attendance, ln, calls, cancelled, evicted,
                   probe, decision, returned, scene, confirmed,
                   encs, fingerprints,
                   odd_frame, utc_today,
                   api_attendance>>

\* the second request: the insert or the update, from what the select saw
RaceWrite(c) ==
    /\ inflight[c].pc = "selected"
    /\ LET f == inflight[c]
           t == IF c = "client"
                THEN WriteAttendance(attendance, f.rows, f.student_id, f.when)
                ELSE ApiWriteAttendance(attendance, f.rows, f.student_id, f.when)
       IN /\ attendance' = t.tbl
          /\ returned' = <<t.row>>
          /\ inflight' = [inflight EXCEPT
                             ![c] = Idle(f.n, [f.applied EXCEPT ![f.student_id] = @ + 1])]
    /\ UNCHANGED <<clock, vote_buffers, final_draw, seen_known_this_frame,
                   seen_unknown_this_frame, presence_known, presence_unknown,
                   last_event_at, unknown_attendance, ln, calls, cancelled, evicted,
                   probe, decision, scene, confirmed,
                   encs, fingerprints,
                   odd_frame, utc_today,
                   api_attendance>>

\* the insert is refused by the store (a uniqueness rule on student and day,
\* if the table has one): the toggle raises and writes nothing
RaceInsertRefused(c) ==
    /\ inflight[c].pc = "selected"
    /\ inflight[c].rows = <<>>
    /\ SelectAttendance(attendance, inflight[c].student_id, inflight[c].when.date) /= <<>>
    /\ inflight' = [inflight EXCEPT ![c] = Idle(@.n, @.applied)]
    /\ UNCHANGED <<clock, vote_buffers, final_draw, seen_known_this_frame,
                   seen_unknown_this_frame, presence_known, presence_unknown,
                   last_event_at, attendance, unknown_attendance, ln, calls, cancelled, evicted,
                   probe, decision, returned, scene, confirmed,
                   encs, fingerprints,
                   odd_frame, utc_today,
                   api_attendance>>

InitRace ==
    /\ clock = Now
    /\ vote_buffers = <<>>
    /\ final_draw = <<>>
    /\ seen_known_this_frame = {}
    /\ seen_unknown_this_frame = <<>>
    /\ presence_known = <<>>
    /\ presence_unknown = <<>>
    /\ last_event_at = <<>>
    /\ attendance = <<>>
    /\ unknown_attendance = <<>>
    /\ ln = <<>>
    /\ calls = <<>>
    /\ cancelled = {}
    /\ evicted = {}
    /\ decision = NoDecision
    /\ returned = <<>>
    /\ fingerprints = <<>>
    /\ odd_frame = FALSE
    /\ utc_today = Today
    /\ api_attendance = <<>>
    /\ encs = <<>>
    /\ inflight = [c \in Callers |-> Idle(0, [student_id \in Students |-> 0])]
    /\ confirmed = <<>>
    /\ scene = {}
    /\ probe = None

NextRace ==
    \/ \E c \in Callers, student_id \in Students : RaceSelect(c, student_id)
    \/ \E c \in Callers : RaceWrite(c)
    \/ \E c \in Callers : RaceInsertRefused(c)

SpecRace == InitRace /\ [][NextRace]_vars

\* ---------------------------------------------------------------- encoding_fingerprint alone
\* np.round(x, 2) of a component given in thousandths: the nearest hundredth,
\* a tie going to the even one; the sign is kept, also by a zero
Round2(k) ==
    LET a == IF k < 0 THEN -k ELSE k
        q == a \div 10
        r == a % 10
    IN [neg |-> k < 0,
        hundredths |-> IF r > 5 \/ (r = 5 /\ q % 2 = 1) THEN q + 1 ELSE q]

\* hashlib.sha1(v.tobytes()).hexdigest(): equal for equal bytes only
Sha1(v) == <<"sha1", v>>

encoding_fingerprint(enc) == Sha1([i \in DOMAIN enc |-> Round2(enc[i])])

\* embeddings of two components
Embeddings == {<<a, b>> : a \in (-MaxThousandth)..MaxThousandth, b \in {-5, 5}}

InitFingerprint == Start /\ scene = {} /\ probe = None /\ encs \in Embeddings \X Embeddings

\* fp = encoding_fingerprint(enc), for either embedding
Fingerprint ==
    /\ fingerprints = <<>>
    /\ odd_frame = FALSE
    /\ utc_today = Today
    /\ fingerprints' = <<encoding_fingerprint(encs[1]), encoding_fingerprint(encs[2])>>
    /\ UNCHANGED <<clock, vote_buffers, final_draw, seen_known_this_frame,
                   seen_unknown_this_frame, presence_known, presence_unknown,
                   last_event_at, attendance, unknown_attendance, ln, calls, cancelled,
                   evicted, probe, decision, returned, inflight, scene, confirmed, encs,
                   odd_frame, utc_today,
                   api_attendance>>

NextFingerprint == Fingerprint

SpecFingerprint == InitFingerprint /\ [][NextFingerprint]_vars

\* ---------------------------------------------------------------- the voter alone
\* The per-face loop of one iteration of the main loop over a frame; the
\* presence part of the iteration neither reads nor writes vote_buffers and
\* final_draw and is left out.
RecogniseFrame(frame) ==
    LET rec == Recognise(vote_buffers, frame)
    IN /\ vote_buffers' = rec.vb
       /\ final_draw' = rec.draw
       /\ seen_known_this_frame' = rec.known
       /\ seen_unknown_this_frame' = rec.unknown
       /\ UNCHANGED <<clock, presence_known, presence_unknown, last_event_at, attendance,
                      unknown_attendance, ln, calls, cancelled, evicted, probe, decision, returned,
                      inflight, scene, confirmed,
                   encs, fingerprints,
                   odd_frame, utc_today,
                   api_attendance>>


\* one face at a time: either enrolled person or a stranger, near or far
VoteFrames == {<<Box(FaceAlice)>>, <<Box(FaceBob)>>, <<Box(FaceStranger)>>,
               <<SmallBox(FaceAlice)>>, <<ShortBox(FaceAlice)>>}

InitVote == Start /\ scene = VoteFrames /\ probe = None /\ encs = <<>>

NextVote == \E frame \in scene : RecogniseFrame(frame)

SpecVote == InitVote /\ [][NextVote]_vars

\* ---------------------------------------------------------------- decide_identity alone
\* blended distances from 89 to 121 for each of two labels
ProbeCentroid == {40, 50, 60}

ProbeMembers == {<<50, 60>>, <<61, 49>>, <<51, 70>>, <<59, 60>>, <<60, 61>>, <<61, 62>>}

ProbeEncodings ==
    {[fp |-> "p", dc |-> [alice |-> ca, bob |-> cb, carol |-> 55],
      dm |-> [alice |-> ma, bob |-> mb, carol |-> <<58, 55>>]] :
        ca \in ProbeCentroid, cb \in ProbeCentroid, ma \in ProbeMembers, mb \in ProbeMembers}

ProbeGalleries == {<<"alice">>, <<"alice", "bob">>, <<"bob", "alice">>,
                   <<"carol", "alice", "bob">>}

InitIdentify ==
    /\ Start
    /\ scene = {}
    /\ encs = <<>>
    /\ probe \in [enc : ProbeEncodings, identities : ProbeGalleries]

\* candidate, best, second = decide_identity(enc, identities, ...)
Identify ==
    /\ decision = NoDecision
    /\ decision' = decide_identity(probe.enc, probe.identities)
    /\ UNCHANGED <<clock, vote_buffers, final_draw, seen_known_this_frame,
                   seen_unknown_this_frame, presence_known, presence_unknown,
                   last_event_at, attendance, unknown_attendance, ln, calls, cancelled, evicted,
                   probe, returned, inflight, scene, confirmed,
                   encs, fingerprints,
                   odd_frame, utc_today,
                   api_attendance>>

NextIdentify == Identify

SpecIdentify == InitIdentify /\ [][NextIdentify]_vars

\* ---------------------------------------------------------------- properties
\* every tracked entity: its debounce key, the name its log rows carry and
\* its PresenceState
Trackers ==
    {[key |-> KnownKey(n), log |-> n, st |-> presence_known[n]] :
        n \in DOMAIN presence_known}
    \cup {[key |-> UnknownKey(f), log |-> UnknownKey(f), st |-> presence_unknown[f]] :
              f \in DOMAIN presence_unknown}

\* the notify_seen_* invocations the last tick made for key
CallsFor(key) == {i \in DOMAIN calls : calls[i].key = key}

\* the invocation returned ok = True
Succeeded(c) == c.gate /\ c.outcome \in {"ok", "upload_fail"}

\* the entity was seen by the last tick
SeenNow(st) == st.last_seen_ts = Now

\* C1: two consecutive confirmed transitions of one entity (a check-in then a
\* check-out, or a check-out then a check-in) are at least EVENT_DEBOUNCE_SEC
\* apart in tick time.
C1_DebounceFloor ==
    \A k \in DOMAIN confirmed :
        confirmed[k].prev /= None => confirmed[k].since >= EVENT_DEBOUNCE_SEC

\* C1 witness: a check-in confirmed by the last tick exactly EVENT_DEBOUNCE_SEC
\* after the same entity's check-out.
C1_Witness ==
    \E k \in DOMAIN confirmed :
        /\ confirmed[k].kind = "in" /\ confirmed[k].prev = "out"
        /\ confirmed[k].at = Now
        /\ confirmed[k].since = EVENT_DEBOUNCE_SEC

\* C2: a check-out is confirmed no sooner than MIN_SESSION_SEC after the
\* check-in it follows, however long the entity has been absent.
C2_MinSession ==
    \A k \in DOMAIN confirmed :
        confirmed[k].kind = "out" =>
            confirmed[k].prev = "in" /\ confirmed[k].since >= MIN_SESSION_SEC

\* C2 witness: an entity that is present and has been missing for the whole
\* grace, past the debounce, but whose session is younger than
\* MIN_SESSION_SEC: the last tick asked for nothing.
C2_Witness ==
    \E t \in Trackers :
        /\ t.st.present /\ t.st.missing_since /= 0
        /\ Now - t.st.missing_since >= ABSENCE_GRACE_SEC
        /\ Now - t.st.last_toggle_at >= EVENT_DEBOUNCE_SEC
        /\ Now - t.st.entered_at < MIN_SESSION_SEC
        /\ CallsFor(t.key) = {}

\* C3: a check-in is asked for, and confirmed, only on a tick that sees the
\* entity with its entering window open for at least APPEAR_SUSTAIN_SEC: an
\* entity seen for less and then lost gets no toggle and stays not present.
C3_NoEarlyCheckIn ==
    /\ \A i \in DOMAIN calls :
          calls[i].kind = "in" =>
              \E t \in Trackers :
                  /\ t.key = calls[i].key /\ SeenNow(t.st)
                  /\ t.st.first_seen_ts /= 0
                  /\ Now - t.st.first_seen_ts >= APPEAR_SUSTAIN_SEC
    /\ \A t \in Trackers :
          (t.st.present /\ t.st.entered_at = Now) =>
              /\ SeenNow(t.st) /\ t.st.first_seen_ts /= 0
              /\ Now - t.st.first_seen_ts >= APPEAR_SUSTAIN_SEC
    /\ \A t \in Trackers :
          (~SeenNow(t.st) /\ ~t.st.present) =>
              \A i \in CallsFor(t.key) : calls[i].kind = "out"

\* C3 witness: an entity seen on several ticks that spanned less than
\* APPEAR_SUSTAIN_SEC, not seen by the last tick, never toggled and not present.
C3_Witness ==
    \E t \in Trackers :
        /\ ~t.st.present /\ t.st.first_seen_ts /= 0 /\ ~SeenNow(t.st)
        /\ t.st.last_seen_ts > t.st.first_seen_ts
        /\ t.st.last_seen_ts - t.st.first_seen_ts < APPEAR_SUSTAIN_SEC
        /\ t.st.last_toggle_at = 0
        /\ t.key \notin DOMAIN last_event_at
        /\ CallsFor(t.key) = {}

\* C4: an entity never toggled before, seen by a tick at which its entering
\* window has been open for APPEAR_SUSTAIN_SEC or more, is checked in by that
\* tick unless the gateway refused or failed; a present entity that stays seen
\* is asked nothing more, and one tick checks an entity in at most once.
C4_CheckInAtSustain ==
    /\ \A t \in Trackers :
          (/\ ~t.st.present /\ SeenNow(t.st) /\ t.st.last_toggle_at = 0
           /\ Now - t.st.first_seen_ts >= APPEAR_SUSTAIN_SEC) =>
              /\ CallsFor(t.key) /= {}
              /\ \A i \in CallsFor(t.key) : calls[i].kind = "in" /\ ~Succeeded(calls[i])
    /\ \A t \in Trackers :
          (t.st.present /\ SeenNow(t.st) /\ t.st.entered_at /= Now) =>
              CallsFor(t.key) = {}
    /\ \A t \in Trackers :
          Cardinality({i \in CallsFor(t.key) :
                          calls[i].kind = "in" /\ Succeeded(calls[i])}) <= 1

\* C4 witness: the entity's first check-in, made by the tick that saw it
\* exactly APPEAR_SUSTAIN_SEC after its first sighting, with one gateway
\* call, which succeeded.
C4_Witness ==
    \E t \in Trackers :
        /\ t.st.present /\ t.st.entered_at = Now
        /\ t.st.first_seen_ts = Now - APPEAR_SUSTAIN_SEC
        /\ confirmed[t.key].prev = None
        /\ Cardinality(CallsFor(t.key)) = 1
        /\ \A i \in CallsFor(t.key) : Succeeded(calls[i])

\* C5: when every gateway call the last tick made for an entity returned
\* ok = False, the entity's present flag, entered_at and last_toggle_at are
\* what they were, the window the attempt was made from is still open, and no
\* log row was written for it.
C5_FailureKeepsState ==
    \A t \in Trackers :
        (CallsFor(t.key) /= {} /\ \A i \in CallsFor(t.key) : ~Succeeded(calls[i])) =>
            /\ t.st.last_toggle_at /= Now
            /\ t.st.entered_at /= Now
            /\ \A i \in CallsFor(t.key) :
                  /\ calls[i].kind = "in" =>
                        ~t.st.present /\ t.st.entered_at = 0 /\ t.st.first_seen_ts /= 0
                  /\ calls[i].kind = "out" =>
                        /\ t.st.present /\ t.st.entered_at /= 0
                        /\ t.st.missing_since /= 0
            /\ \A j \in DOMAIN ln : ln[j].name /= t.log
            /\ (t.key \in DOMAIN confirmed => confirmed[t.key].at /= Now)

\* C5 witness: a check-out attempt that passed the gate and failed in the store.
C5_Witness ==
    \E t \in Trackers :
        \E i \in CallsFor(t.key) :
            /\ calls[i].kind = "out" /\ calls[i].gate /\ calls[i].outcome = "error"
            /\ t.st.present /\ t.st.missing_since /= 0

\* C6: on every tick at which an entity's transition conditions hold, the
\* transition is put to the gateway again, so that a transition that failed is
\* confirmed by the first later tick at which the conditions hold and the
\* gateway would succeed.
C6_RetryOnNextTick ==
    \A t \in Trackers :
        (\/ ~t.st.present /\ SeenNow(t.st) /\ CheckInDue(t.st, Now)
         \/ t.st.present /\ ~SeenNow(t.st) /\ CheckOutDue(t.st, Now)) =>
            \E i \in CallsFor(t.key) : calls[i].gate

\* C7: one tick attempts at most one attendance toggle against the store for
\* one entity key, duplicate fingerprints in the frame and a failed first
\* attempt included.
C7_OneTogglePerTick ==
    \A k \in {calls[i].key : i \in DOMAIN calls} :
        Cardinality({i \in CallsFor(k) : calls[i].toggled}) <= 1

\* C8: a present entity seen by a tick has no leaving window after it, and a
\* check-out is confirmed only by a tick before which the entity has gone
\* unseen for ABSENCE_GRACE_SEC or more.
C8_LeavingWindow ==
    /\ \A t \in Trackers : (t.st.present /\ SeenNow(t.st)) => t.st.missing_since = 0
    /\ \A t \in Trackers :
          (t.key \in DOMAIN confirmed /\ confirmed[t.key].kind = "out"
           /\ confirmed[t.key].at = Now) =>
              /\ ~SeenNow(t.st)
              /\ Now - t.st.last_seen_ts >= ABSENCE_GRACE_SEC
    /\ \A k \in cancelled :
          \E t \in Trackers : t.key = k /\ t.st.present /\ t.st.missing_since = 0

\* C8 witness: a present entity whose leaving window was open, seen again by
\* the last tick after its minimum session had passed: the window is closed
\* and it is still present.
C8_Witness ==
    \E t \in Trackers :
        /\ t.key \in cancelled
        /\ t.st.present /\ SeenNow(t.st) /\ t.st.missing_since = 0
        /\ Now - t.st.entered_at >= MIN_SESSION_SEC

\* the number of entries of buf equal to v
CountOf(buf, v) == Cardinality({i \in DOMAIN buf : buf[i] = v})

\* the values no other value of buf outnumbers
MostCommon(buf) ==
    {buf[i] : i \in {j \in DOMAIN buf :
                        \A k \in DOMAIN buf : CountOf(buf, buf[k]) <= CountOf(buf, buf[j])}}

\* the last at most VOTES_WINDOW entries of b
Recent(b) ==
    LET n == IF Len(b) < VOTES_WINDOW THEN Len(b) ELSE VOTES_WINDOW
    IN [i \in 1..n |-> b[Len(b) - n + i]]

\* C9: per detection slot, the buffer after a frame is the last at most
\* VOTES_WINDOW candidates; for a detection of full size the label drawn is a
\* most common value of that window when that value is not Unknown and has at
\* least VOTES_REQUIRED entries, and Unknown otherwise; a value with at least
\* VOTES_REQUIRED entries and more than any other value is the label drawn.
C9_VoteOverWindow ==
    [][\A idx \in 0..(Len(final_draw') - 1) :
          LET old == Get(vote_buffers, idx, <<>>)
              new == vote_buffers'[idx]
              label == final_draw'[idx + 1][1]
              box == final_draw'[idx + 1][2]
          IN /\ \E c \in {"alice", "bob", Unknown} : new = Recent(Append(old, c))
             /\ Len(new) <= VOTES_WINDOW
             /\ (box[1] >= MIN_BOX_SIZE /\ box[2] >= MIN_BOX_SIZE) =>
                   /\ label /= Unknown =>
                         label \in MostCommon(new) /\ CountOf(new, label) >= VOTES_REQUIRED
                   /\ \A v \in MostCommon(new) :
                         (v /= Unknown /\ MostCommon(new) = {v}
                          /\ CountOf(new, v) >= VOTES_REQUIRED) => label = v
                   /\ (\A v \in MostCommon(new) :
                          v = Unknown \/ CountOf(new, v) < VOTES_REQUIRED) => label = Unknown
      ]_vars

\* C9 witness: the window L, Unknown, L, Unknown, L, Unknown, L, for which L
\* is drawn.
C9_Witness ==
    /\ 0 \in DOMAIN vote_buffers
    /\ vote_buffers[0] = <<"alice", Unknown, "alice", Unknown, "alice", Unknown, "alice">>
    /\ Len(final_draw) = 1
    /\ final_draw[1][1] = "alice"

\* the distance of the probe to a label of its gallery
ProbeDist(l) == BlendedDist(probe.enc, l)

ProbeLabels == {probe.identities[i] : i \in DOMAIN probe.identities}

ProbeBest == CHOOSE d \in {ProbeDist(l) : l \in ProbeLabels} :
                 \A l \in ProbeLabels : d <= ProbeDist(l)

\* the labels at the smallest distance, and the second-smallest distance
ProbeNearest == {l \in ProbeLabels : ProbeDist(l) = ProbeBest}

ProbeSecond ==
    IF Cardinality(ProbeLabels) = 1 THEN Inf
    ELSE IF Cardinality(ProbeNearest) > 1 THEN ProbeBest
    ELSE CHOOSE d \in {ProbeDist(l) : l \in ProbeLabels \ ProbeNearest} :
             \A l \in ProbeLabels \ ProbeNearest : d <= ProbeDist(l)

\* C10: for a non-empty gallery decide_identity returns Unknown exactly when
\* the smallest label distance exceeds TOLERANCE or the second-smallest is
\* less than GAP_MARGIN above it (infinitely far with one label), and the
\* label at the smallest distance otherwise.
C10_RejectionRule ==
    decision /= NoDecision =>
        IF ProbeBest > TOLERANCE \/ (ProbeSecond - ProbeBest) < GAP_MARGIN
        THEN decision.name = Unknown
        ELSE ProbeNearest = {decision.name}

\* C10 witness: a probe whose nearest label is at exactly TOLERANCE and whose
\* second label is exactly GAP_MARGIN further, accepted.
C10_Witness ==
    /\ decision /= NoDecision
    /\ decision.name /= Unknown
    /\ decision.best = TOLERANCE
    /\ decision.second - decision.best = GAP_MARGIN

\* the entity a row belongs to
EntityOf(row) == IF "student_id" \in DOMAIN row THEN row.student_id ELSE row.unknown_id

\* the rows of tbl for the entity and the day of row r
SameEntityDay(tbl, r) ==
    SelectSeq(tbl, LAMBDA x : EntityOf(x) = EntityOf(r) /\ x.date = r.date)

Opposite(status) == IF status = "checked-in" THEN "checked-out" ELSE "checked-in"

\* C11: toggles of one entity on one calendar day, made one after the other,
\* alternate the stored status: the first creates a checked-in row, every later
\* one stores and returns the opposite of the status stored before it.
C11_TogglesAlternate ==
    [][returned' /= <<>> =>
          LET r == returned'[1]
              known == "student_id" \in DOMAIN r
              old == SameEntityDay(IF known THEN attendance ELSE unknown_attendance, r)
              new == SameEntityDay(IF known THEN attendance' ELSE unknown_attendance', r)
          IN /\ Len(new) = 1
             /\ new[1] = r
             /\ old = <<>> => r.status = "checked-in"
             /\ old /= <<>> => Len(old) = 1 /\ r.status = Opposite(old[1].status)
      ]_vars

\* C11 witness: a row toggled three times on one day, checked in again after
\* a check-out.
C11_Witness ==
    /\ returned /= <<>>
    /\ returned[1].visits = 3
    /\ returned[1].status = "checked-in"
    /\ returned[1].check_out_at = 0

\* the toggles of student_id that have returned, over both writers
AppliedTo(student_id) ==
    inflight["client"].applied[student_id] + inflight["api"].applied[student_id]

\* C12: whenever the camera client and the API handler have toggled the same
\* student on the same day, overlapping or not, and both are done, the store
\* holds exactly one row for that student and day, with the visit count and
\* the status of that many toggles applied one after the other.
C12_SerialOutcome ==
    (\A c \in Callers : inflight[c].pc = "idle") =>
        \A student_id \in Students :
            LET rows == SelectSeq(attendance,
                                  LAMBDA r : r.student_id = student_id /\ r.date = Today)
                k == AppliedTo(student_id)
            IN IF k = 0 THEN rows = <<>>
               ELSE /\ Len(rows) = 1
                    /\ rows[1].visits = k
                    /\ rows[1].status = IF k % 2 = 1 THEN "checked-in" ELSE "checked-out"

\* C13: a tracker with an open entering window that was never confirmed
\* present and is no longer seen is deleted by the first tick that finds more
\* than 3 * ABSENCE_GRACE_SEC passed since its last sighting: no tick deletes
\* one sooner, and none is left once that long has passed.
C13_StaleEviction ==
    /\ \A e \in evicted : e.idle > ABSENCE_GRACE_SEC * 3
    /\ \A t \in Trackers :
          (~t.st.present /\ t.st.first_seen_ts /= 0) =>
              Now - t.st.last_seen_ts <= ABSENCE_GRACE_SEC * 3

\* C13 witness: the last tick deleted the tracker of an entity that was never
\* checked in.
C13_Witness ==
    \E e \in evicted :
        /\ e.key \notin DOMAIN confirmed
        /\ \A t \in Trackers : t.key /= e.key

\* C14: a tracker is deleted only if its entity was never confirmed present;
\* the tracker of an entity that has had a check-in is never deleted.
C14_EvictOnlyNeverPresent ==
    \A e \in evicted : e.key \notin DOMAIN confirmed

\* C15: every tracker that is present has entered_at set, to the tick time of
\* the check-in that made it present.
C15_PresentHasEnteredAt ==
    \A t \in Trackers :
        t.st.present =>
            /\ t.st.entered_at /= 0
            /\ t.key \in DOMAIN confirmed
            /\ confirmed[t.key].kind = "in"
            /\ t.st.entered_at = confirmed[t.key].at

\* C15 witness: an entity present since an earlier tick, less than
\* MIN_SESSION_SEC ago.
C15_Witness ==
    \E t \in Trackers :
        /\ t.st.present
        /\ t.st.entered_at < Now
        /\ Now - t.st.entered_at < MIN_SESSION_SEC

\* two components, in thousandths, that differ at most in the third decimal
SameButThird(k1, k2) ==
    /\ (k1 < 0) = (k2 < 0)
    /\ (IF k1 < 0 THEN -k1 ELSE k1) \div 10 = (IF k2 < 0 THEN -k2 ELSE k2) \div 10

\* C16: two embeddings whose components differ only in the third decimal
\* place have the same fingerprint.
C16_ThirdDecimalAbsorbed ==
    (fingerprints /= <<>> /\ \A i \in DOMAIN encs[1] : SameButThird(encs[1][i], encs[2][i]))
        => fingerprints[1] = fingerprints[2]

\* C17: a check-in attempt of an unknown entity whose snapshot upload failed
\* mutates nothing: no attendance toggle is made by that call, the entity is
\* not present after the tick and no log row is written for it.
C17_UploadFailureSkips ==
    \A t \in Trackers :
        \A i \in CallsFor(t.key) :
            calls[i].outcome = "upload_fail" =>
                /\ ~calls[i].toggled
                /\ ~t.st.present
                /\ \A j \in DOMAIN ln : ln[j].name /= t.log

\* C18: a check-in attempt for a confirmed known label that has no student
\* record changes nothing on that tick (no attendance toggle, present,
\* entered_at and last_toggle_at as they were), and the next tick at which the
\* entity is seen with the sustain and last-toggle debounce conditions
\* satisfied makes the attempt again, up to the directory lookup.
C18_LookupMissRetried ==
    [][\A n \in DOMAIN presence_known :
          (\E i \in CallsFor(KnownKey(n)) :
               calls[i].kind = "in" /\ calls[i].outcome = "miss") =>
              /\ \A i \in CallsFor(KnownKey(n)) : ~calls[i].toggled
              /\ ~presence_known[n].present
              /\ presence_known[n].entered_at = 0
              /\ presence_known[n].last_toggle_at /= Now
              /\ (/\ n \in DOMAIN presence_known'
                  /\ ~presence_known'[n].present
                  /\ SeenNow(presence_known'[n])
                  /\ CheckInDue(presence_known'[n], Now))
                     => \E i \in DOMAIN calls' :
                            calls'[i].key = KnownKey(n) /\ calls'[i].gate]_vars

\* C19: a detection whose box is narrower or lower than MIN_BOX_SIZE is drawn
\* as Unknown on that frame, whatever its embedding and whatever its slot's
\* buffer held, and the vote appended to the slot's buffer is Unknown.
C19_SmallBoxUnknown ==
    [][\A idx \in 0..(Len(final_draw') - 1) :
          LET box == final_draw'[idx + 1][2]
          IN (box[1] < MIN_BOX_SIZE \/ box[2] < MIN_BOX_SIZE) =>
                /\ final_draw'[idx + 1][1] = Unknown
                /\ vote_buffers'[idx] = Recent(Append(Get(vote_buffers, idx, <<>>), Unknown))
      ]_vars

\* C19 witness: an enrolled face in a box of full width and short height,
\* after six votes for that person in the slot: drawn as Unknown, and the
\* seventh vote is Unknown.
C19_Witness ==
    /\ 0 \in DOMAIN vote_buffers
    /\ vote_buffers[0] = <<"alice", "alice", "alice", "alice", "alice", "alice", Unknown>>
    /\ final_draw = <<<<Unknown, <<MIN_BOX_SIZE, MIN_BOX_SIZE - 1>>>>>>
    /\ seen_known_this_frame = {}

\* where v first and last occurs in buf
FirstAt(buf, v) == CHOOSE i \in DOMAIN buf : buf[i] = v /\ \A j \in 1..(i - 1) : buf[j] /= v

LastAt(buf, v) == CHOOSE i \in DOMAIN buf : buf[i] = v /\ \A j \in (i + 1)..Len(buf) : buf[j] /= v

\* of the most common values of buf, the one that entered buf first
FirstInserted(buf) ==
    CHOOSE v \in MostCommon(buf) :
        \A u \in MostCommon(buf) : FirstAt(buf, v) <= FirstAt(buf, u)

\* of the most common values of buf, the one whose count reaches the maximum
\* first when buf is read from oldest to newest: its last entry is the earliest
FirstToReach(buf) ==
    CHOOSE v \in MostCommon(buf) :
        \A u \in MostCommon(buf) : LastAt(buf, v) <= LastAt(buf, u)

\* the label drawn when mode is taken for the majority of buf
LabelOf(buf, mode) ==
    IF mode /= Unknown /\ CountOf(buf, mode) >= VOTES_REQUIRED THEN mode ELSE Unknown

\* C20 (as amended): when several values tie for the highest count in a
\* slot's window, the majority is the tied value that entered the window
\* first, and the label of a full-size detection is drawn from it.
C20_TieFirstInserted ==
    [][\A idx \in 0..(Len(final_draw') - 1) :
          LET new == vote_buffers'[idx]
              box == final_draw'[idx + 1][2]
          IN (box[1] >= MIN_BOX_SIZE /\ box[2] >= MIN_BOX_SIZE) =>
                final_draw'[idx + 1][1] = LabelOf(new, FirstInserted(new))
      ]_vars

\* C20 (as stated): when several values tie for the highest count in a slot's
\* window, the majority is the tied value whose count reaches that maximum
\* first when the window is read from oldest to newest.
C20_TieFirstToReach ==
    [][\A idx \in 0..(Len(final_draw') - 1) :
          LET new == vote_buffers'[idx]
              box == final_draw'[idx + 1][2]
          IN (box[1] >= MIN_BOX_SIZE /\ box[2] >= MIN_BOX_SIZE) =>
                final_draw'[idx + 1][1] = LabelOf(new, FirstToReach(new))
      ]_vars

\* C20 witness: a three-all tie in which the value that entered first is the
\* last to reach three; it is the one drawn.
C20_Witness ==
    /\ 0 \in DOMAIN vote_buffers
    /\ vote_buffers[0] = <<"alice", "bob", "bob", "bob", "alice", "alice">>
    /\ final_draw = <<<<"alice", <<MIN_BOX_SIZE, MIN_BOX_SIZE>>>>>>

\* C21: an entity in the entering window (not present, first_seen_ts set)
\* that a tick does not see has its entering window cleared by that tick, so
\* that a check-in needs APPEAR_SUSTAIN_SEC of unbroken observation: the tick
\* after one that did not see the entity, APPEAR_SUSTAIN_SEC or more later,
\* cannot confirm its check-in.
C21_FlickerClearsWindow ==
    [][\A t \in Trackers :
          (~t.st.present /\ ~SeenNow(t.st)) =>
              ~(/\ t.key \in DOMAIN confirmed'
                /\ confirmed'[t.key].kind = "in"
                /\ confirmed'[t.key].at = Now)
      ]_vars

\* the trackers whose transition of the given kind the last tick confirmed
ConfirmedNow(kind) ==
    {t \in Trackers : /\ t.key \in DOMAIN confirmed
                      /\ confirmed[t.key].kind = kind
                      /\ confirmed[t.key].at = Now}

Healthy == \A i \in DOMAIN calls : calls[i].gate => calls[i].outcome = "ok"

\* the entity of key is present, was not seen by the last tick, and the
\* gateway did not fail on that tick
AwaitsCheckOut(key) ==
    /\ Healthy
    /\ \E t \in Trackers : t.key = key /\ t.st.present /\ ~SeenNow(t.st)

\* the keys an entity of the scenes can get
SceneKeys ==
    {KnownKey(n) : n \in {"alice", "bob"}}
        \cup {UnknownKey(f.fp) : f \in {FaceAlice, FaceBob, FaceStranger}}

\* C23: while ticks keep being processed, no entity stays present for ever
\* once it is never seen again and the gateway has stopped failing: it is
\* checked out.
C23_ExitNotMissed == \A key \in SceneKeys : []<>(~AwaitsCheckOut(key))

\* C23 witness: a check-out confirmed by a tick whose call passed the gate
\* and succeeded, later than MIN_SESSION_SEC after the check-in.
C23_Witness ==
    \E t \in ConfirmedNow("out") :
        /\ \E i \in CallsFor(t.key) : calls[i].kind = "out" /\ calls[i].outcome = "ok"
        /\ confirmed[t.key].since > MIN_SESSION_SEC

\* C24: for every entity key the confirmed transitions alternate, starting
\* with a check-in: the first is a check-in, a check-in follows nothing but a
\* check-out and a check-out nothing but a check-in, whether or not the
\* entity's tracker was deleted and created again in between; the tracker is
\* present exactly after a check-in.
C24_TransitionsAlternate ==
    /\ \A k \in DOMAIN confirmed :
          /\ confirmed[k].prev = None => confirmed[k].kind = "in"
          /\ confirmed[k].kind = "in" => confirmed[k].prev \in {None, "out"}
          /\ confirmed[k].kind = "out" => confirmed[k].prev = "in"
    /\ \A t \in Trackers :
          t.st.present <=> (t.key \in DOMAIN confirmed /\ confirmed[t.key].kind = "in")
    /\ \A k \in DOMAIN confirmed :
          confirmed[k].kind = "in" => \E t \in Trackers : t.key = k

\* C24 witness: an entity that was checked in and out, whose tracker has been
\* deleted since, is seen again and gets a fresh tracker.
C24_Witness ==
    \E t \in Trackers :
        /\ t.key \in DOMAIN confirmed /\ confirmed[t.key].kind = "out"
        /\ t.st.last_toggle_at = 0 /\ t.st.first_seen_ts = Now

\* the status of the row written last for entity e, None when it has no row
LatestStatus(tbl, e) ==
    LET rows == SelectSeq(tbl, LAMBDA r : EntityOf(r) = e)
    IN IF rows = <<>> THEN None ELSE rows[Len(rows)].status

\* present[e].present, False for an entity without a tracker
LocallyPresent(presence, e) == e \in DOMAIN presence /\ presence[e].present

\* C25: with this client the only writer and calls that succeed in full or
\* fail without effect, after every tick an entity is locally present exactly
\* when the status of its latest attendance row is checked-in, and the log row
\* of every confirmed check-out says checked-out, also when the check-in and
\* the check-out fall on different calendar days.
C25_PresentMatchesStore ==
    /\ \A e \in DOMAIN presence_known \cup {EntityOf(attendance[i]) : i \in DOMAIN attendance} :
          LocallyPresent(presence_known, e) <=> LatestStatus(attendance, e) = "checked-in"
    /\ \A e \in DOMAIN presence_unknown
                  \cup {EntityOf(unknown_attendance[i]) : i \in DOMAIN unknown_attendance} :
          LocallyPresent(presence_unknown, e)
              <=> LatestStatus(unknown_attendance, e) = "checked-in"
    /\ \A t \in ConfirmedNow("out") :
          \A j \in DOMAIN ln : ln[j].name = t.log => ln[j].event = "checked-out"

\* within one tick: the gate compares with the time of the entity's last call
\* that passed it, lets a call through exactly when EVENT_DEBOUNCE_SEC have
\* passed since, and leaves that call's time in _last_event_at
GateWithinTick ==
    /\ \A i \in DOMAIN calls :
          /\ calls[i].gate => calls[i].at - calls[i].last >= EVENT_DEBOUNCE_SEC
          /\ ~calls[i].gate => calls[i].at - calls[i].last < EVENT_DEBOUNCE_SEC
          /\ \A j \in DOMAIN calls :
                (j < i /\ calls[j].key = calls[i].key
                 /\ \A m \in (j + 1)..(i - 1) : calls[m].key /= calls[i].key) =>
                    calls[i].last = IF calls[j].gate THEN calls[j].at ELSE calls[j].last
    /\ \A k \in {calls[i].key : i \in DOMAIN calls} :
          LET mine == {i \in CallsFor(k) : calls[i].gate}
          IN mine /= {} =>
                last_event_at[k] = calls[CHOOSE i \in mine : \A j \in mine : j <= i].at

\* C26: a call that passes the per-entity gate is made no sooner than
\* EVENT_DEBOUNCE_SEC after the previous call for that entity that passed it,
\* whether that one succeeded, raised or missed the lookup: the gate's
\* timestamp is the time of the last call that passed, failed or not, and it
\* is what the first call of the next tick is compared with.
C26_GateSpacing ==
    [][/\ GateWithinTick'
       /\ \A i \in DOMAIN calls' :
             (calls' /= calls /\ \A j \in 1..(i - 1) : calls'[j].key /= calls'[i].key) =>
                 LET k == calls'[i].key
                 IN /\ k \notin DOMAIN last_event_at => calls'[i].last = 0
                    /\ k \in DOMAIN last_event_at =>
                          /\ calls'[i].last <= last_event_at[k]
                          /\ calls'[i].last /= 0]_vars

\* C26 witness: a call refused by the gate on the tick after one whose call
\* passed the gate and failed.
C26_Witness ==
    \E i \in DOMAIN calls :
        /\ ~calls[i].gate
        /\ calls[i].at - calls[i].last < EVENT_DEBOUNCE_SEC
        /\ \E t \in Trackers :
              /\ t.key = calls[i].key /\ ~t.st.present
              /\ t.key \notin DOMAIN confirmed

\* C27: a present tracker's entered_at and last_toggle_at are the same
\* instant (the model keeps last_toggle_at no further back than KeepToggle
\* and entered_at no further back than KeepEntered, so the two agree up to
\* the nearer horizon), every tracker with first_seen_ts set has first_seen_ts
\* <= last_seen_ts, and a check-out is confirmed no sooner than the larger of
\* MIN_SESSION_SEC and EVENT_DEBOUNCE_SEC after its check-in.
C27_TrackerInvariants ==
    /\ \A t \in Trackers :
          /\ t.st.present =>
                /\ t.st.entered_at /= 0
                /\ t.st.last_toggle_at = Max2(t.st.entered_at, Now - KeepToggle)
          /\ t.st.first_seen_ts /= 0 => t.st.first_seen_ts <= t.st.last_seen_ts
    /\ \A k \in DOMAIN confirmed :
          confirmed[k].kind = "out" =>
              confirmed[k].since >= Max2(MIN_SESSION_SEC, EVENT_DEBOUNCE_SEC)

\* C27 witness: a check-out confirmed exactly MIN_SESSION_SEC after the
\* check-in, of an entity seen for some time after it was checked in.
C27_Witness ==
    \E t \in ConfirmedNow("out") :
        /\ confirmed[t.key].since = Max2(MIN_SESSION_SEC, EVENT_DEBOUNCE_SEC)
        /\ ~t.st.present
        /\ Now - t.st.last_seen_ts >= ABSENCE_GRACE_SEC

\* C28: a tick never removes a tracker that is present, however long the
\* entity has been unseen and however often its check-out failed; a tracker a
\* tick removes was not present and had its entering window open.
C28_PresentNeverEvicted ==
    [][\A t \in Trackers :
          /\ t.st.present => \E u \in Trackers' : u.key = t.key
          /\ (\A u \in Trackers' : u.key /= t.key) =>
                /\ ~t.st.present /\ t.st.first_seen_ts /= 0
                /\ \E e \in evicted' : e.key = t.key
      ]_vars

\* C28 witness: a present entity unseen for more than 3 * ABSENCE_GRACE_SEC,
\* whose check-out has just failed, still has its tracker.
C28_Witness ==
    \E t \in Trackers :
        /\ t.st.present
        /\ Now - t.st.last_seen_ts > ABSENCE_GRACE_SEC * 3
        /\ \E i \in CallsFor(t.key) :
              calls[i].kind = "out" /\ calls[i].gate /\ calls[i].outcome = "timeout"

\* the detections of the last frame whose box has the minimum size
FullSize(draw) ==
    {i \in DOMAIN draw : draw[i][2][1] >= MIN_BOX_SIZE /\ draw[i][2][2] >= MIN_BOX_SIZE}

\* C29: a detection below the minimum box size enters neither the seen-known
\* set nor the seen-unknown list of its frame; a frame holding nothing but
\* such detections creates no tracker, refreshes no last_seen_ts, closes no
\* leaving window and asks for no check-in.
C29_SmallBoxNoPresence ==
    [][final_draw' /= <<>> =>
          /\ Len(seen_unknown_this_frame') + Cardinality(seen_known_this_frame')
                <= Cardinality(FullSize(final_draw'))
          /\ FullSize(final_draw') = {} =>
                /\ DOMAIN presence_known' \subseteq DOMAIN presence_known
                /\ DOMAIN presence_unknown' \subseteq DOMAIN presence_unknown
                /\ \A t \in Trackers' : ~SeenNow(t.st)
                /\ cancelled' = {}
                /\ \A i \in DOMAIN calls' : calls'[i].kind /= "in"
      ]_vars

\* C29 witness: a present entity whose leaving window was open shows up in a
\* box below the minimum size: the window stays open.
C29_Witness ==
    /\ final_draw /= <<>> /\ FullSize(final_draw) = {}
    /\ \E t \in Trackers :
          /\ t.st.present /\ t.st.missing_since /= 0 /\ t.st.missing_since /= Now
          /\ t.st.last_seen_ts /= Now

\* a row as the toggles leave it: checked in with no check-out time, or
\* checked out with one
WellFormed(row) ==
    /\ row.status \in {"checked-in", "checked-out"}
    /\ row.status = "checked-in" <=> row.check_out_at = 0

\* C30: toggles applied one after the other, starting from no row, leave per
\* entity and day one row whose status is checked-in or checked-out, checked-in
\* exactly when check_out_at is null; each toggle raises that row's visits by
\* one (the first sets it to 1) and touches no other row, so visits is the
\* number of toggles applied to the entity that day.
C30_RowInvariants ==
    [][(attendance' /= attendance \/ unknown_attendance' /= unknown_attendance) =>
          LET r == returned'[1]
              known == "student_id" \in DOMAIN r
              old == IF known THEN attendance ELSE unknown_attendance
              new == IF known THEN attendance' ELSE unknown_attendance'
              before == SameEntityDay(old, r)
          IN /\ \A i \in DOMAIN new : WellFormed(new[i])
             /\ SameEntityDay(new, r) = <<r>>
             /\ r.visits = IF before = <<>> THEN 1 ELSE before[1].visits + 1
             /\ \A i \in DOMAIN old : old[i].id /= r.id => new[i] = old[i]
             /\ known => unknown_attendance' = unknown_attendance
             /\ ~known => attendance' = attendance
      ]_vars

\* C30 witness: an unknown entity's row after four toggles on one day:
\* checked out, with a check-out time and visits = 4.
C30_Witness ==
    \E i \in DOMAIN unknown_attendance :
        /\ unknown_attendance[i].visits = 4
        /\ unknown_attendance[i].status = "checked-out"
        /\ unknown_attendance[i].check_out_at /= 0
        /\ returned = <<unknown_attendance[i]>>


\* C31: the camera's direct toggle and the server's toggle, run side by side
\* from the same stored row or from no row, with the same student and event
\* time at every step, leave both stores with identical rows and return
\* identical rows.
C31_TogglesEquivalent ==
    /\ attendance = api_attendance
    /\ returned # <<>> => returned[1] = returned[2]

\* C31 witness: a stored row toggled to its third visit and a row inserted for
\* someone else, in both stores, the last pair of returns in hand.
C31_Witness ==
    /\ Len(returned) = 2
    /\ Len(attendance) = 2
    /\ Len(api_attendance) = 2
    /\ attendance[1].visits = 3
    /\ api_attendance[1].status \in {"checked-in", "checked-out"}
    /\ returned[2].id = 2

====
